---- MODULE Spec2Model ----
(***************************************************************************)
(* rzstd: regular-expression search over zstd-compressed files.            *)
(*                                                                         *)
(* main (src/src/main.rs) spawns one task per file argument running        *)
(* process_file, plus one progress task that polls two capacity-1          *)
(* broadcast channels per file (total size, cumulative bytes read).        *)
(* Progress (src/src/progress.rs) is the reader that counts and publishes  *)
(* the bytes read.  The tasks run on a multi-threaded scheduler, so the    *)
(* steps of different tasks interleave freely; process::exit stops all.    *)
(***************************************************************************)
EXTENDS Integers, Sequences, FiniteSets, TLC

(* ---------------------------------------------------------------- bounds *)
\* Largest number of file arguments on the command line.
MaxFiles == 2
\* Largest length in bytes of a (compressed) input file.
MaxLen == 3
\* Capacity of the buffer handed to Progress::read: a read returns at most
\* this many bytes.
BufSize == 2
\* Longest line handed to the sink's callback, terminator not counted, and
\* longest literal pattern.
MaxLineLen == 4
MaxPatLen == 2

(* ---------------------------------------------------------------- inputs *)
\* The decompressed text of the model's valid file, as what each line does
\* with the matcher: "M" the matcher finds a span, "N" it finds none, "E"
\* it reports an error.
Text == <<"N", "M">>

\* An input path.  path is what the argument names; target is what the
\* opened handle refers to (File::open follows symbolic links); len is the
\* length its metadata reports; fault is what goes wrong while streaming.
Profile(path, target, len, fault, lines) ==
    [path |-> path, target |-> target, len |-> len, fault |-> fault, lines |-> lines]

Profiles ==
    {Profile("missing", "none", 0, "none", <<>>)}
    \cup {Profile("file", "file", 0, "none", <<>>)}
    \cup {Profile("file", "file", MaxLen, "none", Text)}
    \cup {Profile("file", "file", 1, f, <<"E", "M">>) : f \in {"corrupt", "io"}}
    \cup {Profile("dir", "dir", n, "none", <<>>) : n \in {0, MaxLen}}
    \cup {Profile("symlink", "file", MaxLen - 1, "none", <<"M">>)}

VARIABLES
    argc,        \* args.len(): program name, pattern, files
    regexValid,  \* whether RegexMatcher::new accepts args[1]
    files,       \* args[2..], each with what the file system holds for it
    mPc,         \* main: "args", "join", "await", "done"
    exitCode,    \* -1 while the process runs, else its exit status
    usage,       \* the usage message was written to standard error
    errFiles,    \* files named by "Error processing file" on standard error
    tPc,         \* per task: position in process_file
    outcome,     \* per task: result of process_file ("none" until it ends)
    pos,         \* per task: Progress.bytes_read
    offset,      \* per task: bytes the file handle inside Progress has returned
    eof,         \* per task: a read has returned Ok(0)
    nextLine,    \* per task: next line of the decompressed text to search
    readIssued,  \* per task: Progress::read has been called
    progSent,    \* per task: progress_sender.send has been called
    totSent,     \* per task: how often total_sender.send has published
    totCh,       \* per file: the total channel
    progCh,      \* per file: the bytes-read channel
    aPc,         \* progress task: "unspawned", "tot", "prog", "sleep", "done"
    bytes_read,  \* progress task: running sum of received bytes-read values
    total,       \* progress task: running sum of received totals
    lastRep,     \* the last progress line written to standard error
    totalFrom,   \* per file: what the file's total channel added to total
    bytesFrom,   \* per file: what the file's bytes-read channel added to bytes_read
    stdout,      \* the lines printed, as <<file index, line number>>
    hLine,       \* sink callback: the line it is given
    hPat,        \* sink callback: the literal the matcher searches for
    hOut,        \* sink callback: what it printed
    hPc,         \* sink callback: "idle", "start", "printed", "skipped"
    rBytesRead,  \* Progress::read alone: self.bytes_read
    rResult,     \* Progress::read alone: what self.inner.read(buf) returns
    rAlive,      \* Progress::read alone: the channel's receiver is alive
    rCh,         \* Progress::read alone: the channel of self.progress_sender
    rRet,        \* Progress::read alone: what the call returns
    rPc          \* Progress::read alone: "idle", "call", "returned"

vars == <<argc, regexValid, files, mPc, exitCode, usage, errFiles, tPc, outcome,
          pos, offset, eof, nextLine, readIssued, progSent, totSent, totCh, progCh, aPc,
          bytes_read, total, lastRep, totalFrom, bytesFrom, stdout,
          hLine, hPat, hOut, hPc, rBytesRead, rResult, rAlive, rCh, rRet, rPc>>

inputVars == <<argc, regexValid, files>>
mainVars == <<mPc, usage>>
taskVars == <<tPc, outcome, pos, offset, eof, nextLine, readIssued, progSent,
              totSent>>
aggVars == <<aPc, bytes_read, total, lastRep, totalFrom, bytesFrom>>
sinkVars == <<hLine, hPat, hOut, hPc>>
readVars == <<rBytesRead, rResult, rAlive, rCh, rRet, rPc>>

NFiles == Len(files)
F == 1..NFiles
Running == exitCode = -1

(* ------------------------------------------- broadcast::channel(1) *)
\* A capacity-1 broadcast channel with one receiver.  pending is the number
\* of values sent since the receiver's cursor, saturated at 2: with more
\* than one the slot was overwritten and the receiver lags.
EmptyCh == [pending |-> 0, val |-> 0]

\* The receivers live in the progress task's future: they are dropped when
\* the task's loop breaks and the future completes.
RxAlive == aPc # "done"

\* Sender::send: fails without storing when no receiver is alive, else
\* overwrites the slot.
SendTo(ch, v, alive) ==
    IF alive THEN [pending |-> IF ch.pending = 0 THEN 1 ELSE 2, val |-> v]
    ELSE ch
SendOk == RxAlive
Send(ch, v) == SendTo(ch, v, SendOk)

\* Receiver::try_recv: Ok(value) when exactly one value is pending;
\* Err(Empty) when none; Err(Lagged) when the slot was overwritten, which
\* moves the cursor to the oldest retained value.
RecvOk(ch) == ch.pending = 1
RecvVal(ch) == ch.val
\* A lagged receiver that skips the retained value too.
MutRecvNext(ch) == EmptyCh
RecvNext(ch) == IF ch.pending = 2 THEN [ch EXCEPT !.pending = 1] ELSE EmptyCh

(* ------------------------------------------------------------------ main *)
NoRep == [kind |-> "none", b |-> 0, t |-> 0]

\* io::Result<usize>: Ok(n) or Err(e).
OkRes(n) == [ok |-> TRUE, n |-> n, err |-> "none"]
ErrRes(e) == [ok |-> FALSE, n |-> 0, err |-> e]

\* No call of Progress::read on its own is under way.
ReadIdle ==
    /\ rBytesRead = 0 /\ rResult = OkRes(0) /\ rAlive = TRUE
    /\ rCh = EmptyCh /\ rRet = OkRes(0) /\ rPc = "idle"

\* The state after the arguments args are read, with pattern validity rv and
\* the file system's view fs of the file arguments.
ProgInit(ac, rv, fs) ==
    /\ argc = ac
    /\ regexValid = rv
    /\ files = fs
    /\ mPc = "args"
    /\ exitCode = -1
    /\ usage = FALSE
    /\ errFiles = {}
    /\ tPc = [f \in 1..Len(fs) |-> "unspawned"]
    /\ outcome = [f \in 1..Len(fs) |-> "none"]
    /\ pos = [f \in 1..Len(fs) |-> 0]
    /\ offset = [f \in 1..Len(fs) |-> 0]
    /\ eof = [f \in 1..Len(fs) |-> FALSE]
    /\ nextLine = [f \in 1..Len(fs) |-> 1]
    /\ readIssued = [f \in 1..Len(fs) |-> FALSE]
    /\ progSent = [f \in 1..Len(fs) |-> FALSE]
    /\ totSent = [f \in 1..Len(fs) |-> 0]
    /\ totCh = [f \in 1..Len(fs) |-> EmptyCh]
    /\ progCh = [f \in 1..Len(fs) |-> EmptyCh]
    /\ aPc = "unspawned"
    /\ bytes_read = 0
    /\ total = 0
    /\ lastRep = NoRep
    /\ totalFrom = [f \in 1..Len(fs) |-> 0]
    /\ bytesFrom = [f \in 1..Len(fs) |-> 0]
    /\ stdout = <<>>

\* Every command line of at most MaxFiles files: args.len() is 1 (program
\* name only), 2 (pattern only) or 2 plus the number of files.
Init ==
    /\ \E fs \in UNION {[1..n -> Profiles] : n \in 0..MaxFiles} :
       \E ac \in (IF Len(fs) = 0 THEN {1, 2} ELSE {Len(fs) + 2}) :
       \E rv \in (IF ac = 1 THEN {TRUE} ELSE BOOLEAN) :
          ProgInit(ac, rv, fs)
    /\ hLine = <<>> /\ hPat = <<>> /\ hOut = <<>> /\ hPc = "idle"
    /\ ReadIdle

\* The argument check of main.
TooFewArgs == argc < 2

\* main.rs 24-27: too few arguments.
M_Usage ==
    /\ Running /\ mPc = "args" /\ TooFewArgs
    /\ usage' = TRUE
    /\ exitCode' = 1
    /\ mPc' = "done"
    /\ UNCHANGED <<inputVars, sinkVars, readVars, errFiles, taskVars, totCh, progCh, aggVars, stdout>>

\* main.rs 29-89: create the channels, spawn one task per file, spawn the
\* progress task.
M_Spawn ==
    /\ Running /\ mPc = "args" /\ ~TooFewArgs
    /\ tPc' = [f \in F |-> "open"]
    /\ aPc' = "tot"
    /\ mPc' = "join"
    /\ UNCHANGED <<inputVars, sinkVars, readVars, exitCode, usage, errFiles, outcome, pos, offset, eof, nextLine,
                   readIssued, progSent, totSent, totCh, progCh, bytes_read, total, lastRep,
                   totalFrom, bytesFrom, stdout>>

\* main.rs 92: join_all(handles) completes when every task has ended,
\* normally or by a panic; the results are discarded.
M_Join ==
    /\ Running /\ mPc = "join"
    /\ \A f \in F : tPc[f] = "done"
    /\ mPc' = "await"
    /\ UNCHANGED <<inputVars, sinkVars, readVars, exitCode, usage, errFiles, taskVars, totCh, progCh,
                   aggVars, stdout>>

\* main.rs 93-95: wait for the progress task, return Ok(()).
M_Return ==
    /\ Running /\ mPc = "await"
    /\ aPc = "done"
    /\ mPc' = "done"
    /\ exitCode' = 0
    /\ UNCHANGED <<inputVars, sinkVars, readVars, usage, errFiles, taskVars, totCh, progCh, aggVars, stdout>>

(* ---------------------------------------------------------- process_file *)
\* File::open succeeds on whatever the path resolves to.
OpenOk(p) == p.path # "missing"

\* The length check left out.
MutIsEmpty(p) == FALSE

\* file.metadata()?.len() == 0
IsEmpty(p) == p.len = 0

\* file.metadata()?.file_type().is_dir(): the type of the opened handle.
MetaIsDir(p) == p.target = "dir"

\* file.metadata()?.file_type().is_symlink(): the metadata of an opened
\* handle describes what the link resolved to, never the link.
MetaIsSymlink(p) == p.target = "symlink"

\* The pattern compiled leniently.
MutCompileOk == TRUE

\* RegexMatcher::new(&regex)
CompileOk == regexValid

\* The task's closure in main: Ok(_) ends the task, Err(e) prints and exits.
Ended(f, res) ==
    /\ outcome' = [outcome EXCEPT ![f] = res]
    /\ tPc' = [tPc EXCEPT ![f] = IF res = "Ok" THEN "done" ELSE "err"]

\* main.rs 108-119: open the file; an empty file is done.
T_Open(f) ==
    /\ Running /\ tPc[f] = "open"
    /\ IF ~OpenOk(files[f]) THEN Ended(f, "OpenError")
       ELSE IF IsEmpty(files[f]) THEN Ended(f, "Ok")
       ELSE /\ tPc' = [tPc EXCEPT ![f] = "announce"]
            /\ UNCHANGED outcome
    /\ UNCHANGED <<inputVars, sinkVars, readVars, mainVars, exitCode, errFiles, pos, offset, eof, nextLine,
                   readIssued, progSent, totSent, totCh, progCh, aggVars, stdout>>

\* main.rs 120: total_sender.send(len).unwrap().  With no receiver left the
\* send fails and unwrap panics: the task ends with a JoinError, which main
\* discards.
T_Announce(f) ==
    /\ Running /\ tPc[f] = "announce"
    /\ IF SendOk
       THEN /\ totCh' = [totCh EXCEPT ![f] = Send(@, files[f].len)]
            /\ totSent' = [totSent EXCEPT ![f] = @ + 1]
            /\ tPc' = [tPc EXCEPT ![f] = "check"]
            /\ UNCHANGED outcome
       ELSE /\ outcome' = [outcome EXCEPT ![f] = "Panic"]
            /\ tPc' = [tPc EXCEPT ![f] = "done"]
            /\ UNCHANGED <<totCh, totSent>>
    /\ UNCHANGED <<inputVars, sinkVars, readVars, mainVars, exitCode, errFiles, pos, offset, eof, nextLine,
                   readIssued, progSent, progCh, aggVars, stdout>>

\* main.rs 122-150: reject directories and symlinks, wrap the file in
\* Progress, create the decoder (which reads nothing yet), compile the
\* pattern.
T_Check(f) ==
    /\ Running /\ tPc[f] = "check"
    /\ IF MetaIsDir(files[f]) \/ MetaIsSymlink(files[f]) THEN Ended(f, "InvalidInputError")
       ELSE IF ~CompileOk THEN Ended(f, "PatternError")
       ELSE /\ tPc' = [tPc EXCEPT ![f] = "search"]
            /\ UNCHANGED outcome
    /\ UNCHANGED <<inputVars, sinkVars, readVars, mainVars, exitCode, errFiles, pos, offset, eof, nextLine,
                   readIssued, progSent, totSent, totCh, progCh, aggVars, stdout>>

\* The byte counts the file handle may return for a read at its offset: 0
\* at end of file, else between 1 and the buffer's capacity.
ReadSizes(f) ==
    IF offset[f] >= files[f].len THEN {0}
    ELSE {n \in 1..BufSize : offset[f] + n <= files[f].len}

\* self.bytes_read = bytes: the size of the last read.
MutCounted(count, bytes) == bytes

\* progress.rs 24: self.bytes_read += bytes
Counted(count, bytes) == count + bytes

\* progress.rs 22-24: the counter after a read with the given result.
ReadCount(count, result) == IF result.ok THEN Counted(count, result.n) ELSE count

\* progress.rs 25-28: the channel after a read with the given result: the
\* new count is sent after a successful read, and a failed send is ignored.
ReadPublish(ch, count, result, alive) ==
    IF result.ok THEN SendTo(ch, ReadCount(count, result), alive) ELSE ch

\* An error of the inner reader turned into a read of no bytes.
MutReadReturn(result) == IF result.ok THEN result ELSE OkRes(0)

\* progress.rs 30: the call returns result.
ReadReturn(result) == result

\* progress.rs 21-31, called by the decoder under search_reader, for a read
\* of the file that returns Ok(n): count the bytes, publish the new count (a
\* failed send is ignored).  The decoder rejects corrupt data once it has
\* some, and stops reading after the read that returned 0.
T_Read(f) ==
    /\ Running /\ tPc[f] = "search" /\ ~eof[f]
    /\ \E n \in ReadSizes(f) :
        /\ offset' = [offset EXCEPT ![f] = @ + n]
        /\ pos' = [pos EXCEPT ![f] = ReadCount(@, OkRes(n))]
        /\ progCh' = [progCh EXCEPT ![f] = ReadPublish(@, pos[f], OkRes(n), SendOk)]
        /\ eof' = [eof EXCEPT ![f] = (ReadReturn(OkRes(n)).n = 0)]
        /\ IF files[f].fault = "corrupt" THEN Ended(f, "FormatError")
           ELSE UNCHANGED <<tPc, outcome>>
    /\ readIssued' = [readIssued EXCEPT ![f] = TRUE]
    /\ progSent' = [progSent EXCEPT ![f] = TRUE]
    /\ UNCHANGED <<inputVars, sinkVars, readVars, mainVars, exitCode, errFiles, nextLine,
                   totSent, totCh, aggVars, stdout>>

\* progress.rs 21-31 for a read of the file that returns Err: nothing is
\* counted or published, and the error, returned as it is, ends the search.
T_ReadErr(f) ==
    /\ Running /\ tPc[f] = "search" /\ ~eof[f]
    /\ files[f].fault = "io"
    /\ ~ReadReturn(ErrRes("io")).ok
    /\ pos' = [pos EXCEPT ![f] = ReadCount(@, ErrRes("io"))]
    /\ progCh' = [progCh EXCEPT ![f] = ReadPublish(@, pos[f], ErrRes("io"), SendOk)]
    /\ readIssued' = [readIssued EXCEPT ![f] = TRUE]
    /\ Ended(f, "IoError")
    /\ UNCHANGED <<inputVars, sinkVars, readVars, mainVars, exitCode, errFiles, offset, eof,
                   nextLine, progSent, totSent, totCh, aggVars, stdout>>

\* main.rs 155-173: the sink's callback on the next line of the text.  A
\* line is printed when matcher.find returns a span; on no span or on an
\* error the callback returns Ok(true) without printing.
Printed(kind) == kind = "M"

\* The callback ending the task's search with an error when the matcher
\* reports one.
MutSinkResult(kind) == IF kind = "E" THEN "error" ELSE "continue"

\* main.rs 159, 163, 172: what the callback returns to the searcher:
\* Ok(true) in each of its branches.
SinkResult(kind) == "continue"

\* main.rs 152-180: the searcher hands the next line to the callback, and
\* goes on, stops, or fails with what the callback returns.  The decoder has
\* produced text once some compressed bytes were read.
T_Line(f) ==
    /\ Running /\ tPc[f] = "search"
    /\ pos[f] > 0
    /\ nextLine[f] <= Len(files[f].lines)
    /\ stdout' = IF Printed(files[f].lines[nextLine[f]])
                 THEN Append(stdout, <<f, nextLine[f]>>)
                 ELSE stdout
    /\ nextLine' = [nextLine EXCEPT ![f] = @ + 1]
    /\ CASE SinkResult(files[f].lines[nextLine[f]]) = "continue" -> UNCHANGED <<tPc, outcome>>
         [] SinkResult(files[f].lines[nextLine[f]]) = "stop" -> Ended(f, "Ok")
         [] OTHER -> Ended(f, "SearchError")
    /\ UNCHANGED <<inputVars, sinkVars, readVars, mainVars, exitCode, errFiles, pos, offset,
                   eof, readIssued, progSent, totSent, totCh, progCh, aggVars>>

\* main.rs 175-182: search_reader returned Ok at the end of the stream.
T_Finish(f) ==
    /\ Running /\ tPc[f] = "search"
    /\ eof[f] /\ nextLine[f] > Len(files[f].lines)
    /\ Ended(f, "Ok")
    /\ UNCHANGED <<inputVars, sinkVars, readVars, mainVars, exitCode, errFiles, pos, offset, eof, nextLine,
                   readIssued, progSent, totSent, totCh, progCh, aggVars, stdout>>

\* main.rs 49-52: process_file returned Err: name the file on standard
\* error and end the process with status 1.
T_Fail(f) ==
    /\ Running /\ tPc[f] = "err"
    /\ errFiles' = errFiles \cup {f}
    /\ exitCode' = 1
    /\ UNCHANGED <<inputVars, sinkVars, readVars, mainVars, taskVars, totCh, progCh, aggVars, stdout>>

(* --------------------------------------------------------- progress task *)
\* main.rs 67: total += bytes
AddTotal(sum, bytes) == sum + bytes

\* bytes_read = bytes: the last value taken for the sum.
MutAddBytes(sum, bytes) == bytes

\* main.rs 73: bytes_read += bytes
AddBytes(sum, bytes) == sum + bytes

\* The sum a drain of the receivers 1..n adds up, starting from sum0: each
\* receiver is polled once with try_recv and only an Ok(value) counts.
RECURSIVE DrainSum(_, _, _, _)
DrainSum(chs, n, sum0, isTotal) ==
    IF n = 0 THEN sum0
    ELSE LET rest == DrainSum(chs, n - 1, sum0, isTotal) IN
         IF RecvOk(chs[n])
         THEN IF isTotal THEN AddTotal(rest, RecvVal(chs[n]))
              ELSE AddBytes(rest, RecvVal(chs[n]))
         ELSE rest

\* What one poll of every receiver adds to the per-file history.
Received(chs, hist) ==
    [f \in F |-> IF RecvOk(chs[f]) THEN hist[f] + RecvVal(chs[f]) ELSE hist[f]]

\* main.rs 65-70: poll every total receiver once.  The tasks of different
\* files do not see each other, so the polls of one loop are one step.
A_Totals ==
    /\ Running /\ aPc = "tot"
    /\ total' = DrainSum(totCh, NFiles, total, TRUE)
    /\ totalFrom' = Received(totCh, totalFrom)
    /\ totCh' = [f \in F |-> RecvNext(totCh[f])]
    /\ aPc' = "prog"
    /\ UNCHANGED <<inputVars, sinkVars, readVars, mainVars, exitCode, errFiles, taskVars, progCh,
                   bytes_read, lastRep, bytesFrom, stdout>>

\* main.rs 80: bytes_read >= total
Complete(b, t) == b >= t

\* main.rs 77-88, after the polls, with the sums b and t: with no total yet,
\* start the next iteration at once; when the bytes read reach the total,
\* report 100% and leave the loop; else report the percentage and sleep.
Report(b, t) ==
    IF t = 0
    THEN aPc' = "tot" /\ UNCHANGED lastRep
    ELSE IF Complete(b, t)
    THEN /\ lastRep' = [kind |-> "full", b |-> b, t |-> t]
         /\ aPc' = "done"
    ELSE /\ lastRep' = [kind |-> "pct", b |-> b, t |-> t]
         /\ aPc' = "sleep"

\* main.rs 71-88: poll every bytes-read receiver once, then check and
\* report.
A_Progress ==
    /\ Running /\ aPc = "prog"
    /\ bytes_read' = DrainSum(progCh, NFiles, bytes_read, FALSE)
    /\ bytesFrom' = Received(progCh, bytesFrom)
    /\ progCh' = [f \in F |-> RecvNext(progCh[f])]
    /\ Report(bytes_read', total)
    /\ UNCHANGED <<inputVars, sinkVars, readVars, mainVars, exitCode, errFiles, taskVars, totCh,
                   total, totalFrom, stdout>>

\* main.rs 87: the 1 ms sleep ends and the next iteration starts.
A_Sleep ==
    /\ Running /\ aPc = "sleep"
    /\ aPc' = "tot"
    /\ UNCHANGED <<inputVars, sinkVars, readVars, mainVars, exitCode, errFiles, taskVars, totCh, progCh,
                   bytes_read, total, lastRep, totalFrom, bytesFrom, stdout>>

(* --------------------------------------------------------- specification *)
MainStep == M_Usage \/ M_Spawn \/ M_Join \/ M_Return

TaskStep(f) ==
    \/ T_Open(f) \/ T_Announce(f) \/ T_Check(f)
    \/ T_Read(f) \/ T_ReadErr(f) \/ T_Line(f) \/ T_Finish(f) \/ T_Fail(f)

AggStep == A_Totals \/ A_Progress \/ A_Sleep

Next ==
    \/ M_Usage
    \/ M_Spawn
    \/ M_Join
    \/ M_Return
    \/ \E f \in F : T_Open(f)
    \/ \E f \in F : T_Announce(f)
    \/ \E f \in F : T_Check(f)
    \/ \E f \in F : T_Read(f)
    \/ \E f \in F : T_ReadErr(f)
    \/ \E f \in F : T_Line(f)
    \/ \E f \in F : T_Finish(f)
    \/ \E f \in F : T_Fail(f)
    \/ A_Totals
    \/ A_Progress
    \/ A_Sleep

Spec == Init /\ [][Next]_vars

\* The scheduler runs every spawned task that can take a step, and main.
FairSpec ==
    /\ Spec
    /\ WF_vars(MainStep)
    /\ WF_vars(AggStep)
    /\ \A f \in 1..MaxFiles : WF_vars(f \in F /\ TaskStep(f))

(* ------------------------------------------------- the sink's callback *)
\* The bytes of the model's lines and patterns.
Alphabet == {"a", "b"}

\* The lines the searcher hands to the callback: text plus its terminator.
SinkLines == {body \o <<"\n">> : body \in UNION {[1..k -> Alphabet] : k \in 0..MaxLineLen}}

\* The patterns: non-empty literals, which are regular expressions too.
SinkPatterns == UNION {[1..k -> Alphabet] : k \in 1..MaxPatLen}

NoMatch == <<0, 0>>

\* matcher.find(line.as_bytes()): the span <<first, last>> of the leftmost
\* occurrence of the literal, or none.
Find(line, pat) ==
    LET starts == {i \in 1..Len(line) :
                     /\ i + Len(pat) - 1 <= Len(line)
                     /\ SubSeq(line, i, i + Len(pat) - 1) = pat}
    IN IF starts = {} THEN NoMatch
       ELSE LET i == CHOOSE i \in starts : \A j \in starts : i <= j
            IN <<i, i + Len(pat) - 1>>

\* text.red().to_string(): the text between the colour's start and stop
\* sequences.
Red(text) == <<"ESC[31m">> \o text \o <<"ESC[0m">>

\* str::replace(from, to) for a non-empty from: every non-overlapping
\* occurrence of from, left to right, becomes to.
RECURSIVE Replace(_, _, _)
Replace(s, from, to) ==
    IF Len(s) < Len(from) THEN s
    ELSE IF SubSeq(s, 1, Len(from)) = from
    THEN to \o Replace(SubSeq(s, Len(from) + 1, Len(s)), from, to)
    ELSE <<Head(s)>> \o Replace(Tail(s), from, to)

\* main.rs 165-166: line.replace(&line[m], &line[m].red().to_string())
ColoredLine(line, m) ==
    Replace(line, SubSeq(line, m[1], m[2]), Red(SubSeq(line, m[1], m[2])))

\* main.rs 155-173: the callback on one line: print the coloured line when
\* the matcher finds a span, print nothing otherwise.
H_Callback ==
    /\ hPc = "start"
    /\ LET m == Find(hLine, hPat) IN
        IF m = NoMatch
        THEN hOut' = <<>> /\ hPc' = "skipped"
        ELSE hOut' = ColoredLine(hLine, m) /\ hPc' = "printed"
    /\ UNCHANGED <<inputVars, readVars, mainVars, exitCode, errFiles, taskVars, totCh,
                   progCh, aggVars, stdout, hLine, hPat>>

\* The callback alone, on every line and pattern of the bounds.
SinkInit ==
    /\ ProgInit(1, TRUE, <<>>)
    /\ hLine \in SinkLines
    /\ hPat \in SinkPatterns
    /\ hOut = <<>>
    /\ hPc = "start"
    /\ ReadIdle

SinkNext == H_Callback

SinkSpec == SinkInit /\ [][SinkNext]_vars

(* -------------------------------------------------- Progress::read alone *)
\* The results the inner reader may return: Ok(n) with n up to the buffer's
\* capacity, or an error.
InnerResults == {OkRes(n) : n \in 0..BufSize} \cup {ErrRes(e) : e \in {"io", "interrupted"}}

\* The states of a capacity-1 channel.
ChStates == {EmptyCh} \cup {[pending |-> k, val |-> v] : k \in 1..2, v \in 0..MaxLen}

\* progress.rs 20-31: one call of Progress::read.
R_Read ==
    /\ rPc = "call"
    /\ rBytesRead' = ReadCount(rBytesRead, rResult)
    /\ rCh' = ReadPublish(rCh, rBytesRead, rResult, rAlive)
    /\ rRet' = ReadReturn(rResult)
    /\ rPc' = "returned"
    /\ UNCHANGED <<inputVars, sinkVars, mainVars, exitCode, errFiles, taskVars, totCh,
                   progCh, aggVars, stdout, rResult, rAlive>>

\* One call, for every counter, inner result and channel state of the
\* bounds, with the receiver alive or dropped.
ReadInit ==
    /\ ProgInit(1, TRUE, <<>>)
    /\ hLine = <<>> /\ hPat = <<>> /\ hOut = <<>> /\ hPc = "idle"
    /\ rBytesRead \in 0..MaxLen
    /\ rResult \in InnerResults
    /\ rAlive \in BOOLEAN
    /\ rCh \in ChStates
    /\ rRet = OkRes(0)
    /\ rPc = "call"

ReadNext == R_Read

ReadSpec == ReadInit /\ [][ReadNext]_vars

(* ------------------------------------------------------------ properties *)
\* The line with the colour's start and stop sequences around the span m
\* and every other byte as it was.
Marked(line, m) ==
    SubSeq(line, 1, m[1] - 1) \o Red(SubSeq(line, m[1], m[2]))
        \o SubSeq(line, m[2] + 1, Len(line))

\* C2: a printed line is the input line with the highlight markers around
\* exactly the span of the first match, every byte outside the span being
\* unchanged.  (As claimed; the code colours every occurrence of the
\* matched text.)
C2_MarkersAroundSpanOnly ==
    hPc = "printed" => hOut = Marked(hLine, Find(hLine, hPat))

\* A non-empty, validly compressed regular file.
ValidFile(p) == p.path = "file" /\ p.len > 0 /\ p.fault = "none"

\* How often line k of file f was printed.
Occurrences(f, k) == Cardinality({i \in 1..Len(stdout) : stdout[i] = <<f, k>>})

\* C1: with non-empty, validly compressed files only, no line without a
\* match is ever written, no line is written twice, and every line with a
\* match has been written once the process ends with status 0.  (As
\* claimed; the code loses the lines of a task that panics on its
\* announcement.)
C1_MatchingLinesPrintedOnce ==
    (regexValid /\ NFiles >= 1 /\ \A f \in F : ValidFile(files[f])) =>
        /\ \A i \in 1..Len(stdout) : files[stdout[i][1]].lines[stdout[i][2]] = "M"
        /\ \A f \in F : \A k \in 1..Len(files[f].lines) : Occurrences(f, k) <= 1
        /\ exitCode = 0 =>
             \A f \in F : \A k \in 1..Len(files[f].lines) :
                files[f].lines[k] = "M" => Occurrences(f, k) = 1

\* C3: with a pattern and at least one file, if no task ever fails then the
\* process eventually exits with status 0.  (As claimed; with only empty
\* files the progress task never ends.)
C3_SuccessExitsZero ==
    (NFiles >= 1 /\ [](\A f \in F : outcome[f] \in {"none", "Ok"})) => <>(exitCode = 0)

\* C4: when 100% is reported in a run over valid files, every file has been
\* read to its end and has had its total added to the running total.  (As claimed; the code
\* reports 100% as soon as the summed values reach the totals seen so far.)
C4_FullOnlyWhenAllFinished ==
    (regexValid /\ lastRep.kind = "full" /\ \A f \in F : ValidFile(files[f])) =>
        \A f \in F : pos[f] = files[f].len /\ totalFrom[f] = files[f].len

\* C5: with no file argument, once main is past its argument check the
\* usage message is written, the exit status is 1 and no progress task was
\* spawned.  (As claimed; the code only checks for a missing pattern.)
C5_NoFilesIsUsageError ==
    (NFiles = 0 /\ mPc # "args") => (usage /\ exitCode = 1 /\ aPc = "unspawned")

\* C6: the task of a directory or a symbolic link ends in no other way than
\* InvalidInputError and never reads through Progress.  (As claimed; the
\* code sees what a link resolves to, and takes a zero-length directory for
\* an empty file.)
C6_DirOrSymlinkRejected ==
    \A f \in F : files[f].path \in {"dir", "symlink"} =>
        outcome[f] \in {"none", "InvalidInputError"} /\ ~readIssued[f]

\* C7 as claimed: with an invalid pattern every task ends in no other way
\* than PatternError, and has then read and published nothing.
C7_EveryTaskPatternError ==
    ~regexValid =>
        \A f \in F : /\ outcome[f] \in {"none", "PatternError"}
                     /\ outcome[f] = "PatternError" => ~readIssued[f] /\ ~progSent[f]

\* C7 as amended: with an invalid pattern, every task whose file opens, is
\* not empty and is not a directory ends in no other way than PatternError;
\* and no task at all starts the search, reads through Progress or
\* publishes a bytes-read update.
C7_PatternErrorBeforeReading ==
    ~regexValid =>
        \A f \in F :
            /\ tPc[f] # "search" /\ ~readIssued[f] /\ ~progSent[f]
            /\ progCh[f] = EmptyCh /\ pos[f] = 0
            /\ (OpenOk(files[f]) /\ files[f].len > 0 /\ files[f].target = "file")
                  => outcome[f] \in {"none", "PatternError"}

\* A task has failed with PatternError on a non-empty regular file.
C7_Witness ==
    ~regexValid /\ \E f \in F : outcome[f] = "PatternError" /\ files[f].len > 0

\* C8: the process never exits with status 0 unless every task completed
\* successfully.  (As claimed; a task that panics on its announcement is
\* only a discarded JoinError to main.)
C8_ExitZeroOnlyIfAllOk ==
    exitCode = 0 => \A f \in F : outcome[f] = "Ok"

\* C9: the task of an empty file never fails, prints nothing, never sends
\* on either of its channels and never reads, and the progress task's sums
\* get nothing from that file.
C9_EmptyFileContributesNothing ==
    \A f \in F : (files[f].path = "file" /\ files[f].len = 0) =>
        /\ outcome[f] \in {"none", "Ok"}
        /\ tPc[f] \in {"unspawned", "open", "done"}
        /\ \A i \in 1..Len(stdout) : stdout[i][1] # f
        /\ totCh[f] = EmptyCh /\ progCh[f] = EmptyCh
        /\ ~progSent[f] /\ ~readIssued[f] /\ pos[f] = 0
        /\ totalFrom[f] = 0 /\ bytesFrom[f] = 0

\* An empty file's task has completed in a run that went on to report 100%
\* for another file and to exit with status 0.
C9_Witness ==
    /\ exitCode = 0 /\ total > 0
    /\ \E f \in F : files[f].path = "file" /\ files[f].len = 0 /\ outcome[f] = "Ok"

\* Every file that announces a total has had it added to the running total.
AllTotalsKnown ==
    \A f \in F : (OpenOk(files[f]) /\ files[f].len > 0) => totalFrom[f] = files[f].len

\* The report rep was written when every total was known: totals are
\* positive and only ever added, so the total it shows is the final one.
Steady(rep) == AllTotalsKnown /\ rep.t = total

\* The value a report shows, as a fraction: bytes_read / total, or 1 for
\* the 100% line.
Num(rep) == IF rep.kind = "full" THEN 1 ELSE rep.b
Den(rep) == IF rep.kind = "full" THEN 1 ELSE rep.t
RepLeq(r1, r2) == Num(r1) * Den(r2) <= Num(r2) * Den(r1)
NonZero(rep) == Num(rep) > 0

\* A step of the progress task that writes a report.
ReportStep == aPc = "prog" /\ aPc' \in {"sleep", "done"}

\* C10: a report that follows a report written when every total was known
\* shows no smaller value, and a report that follows a non-zero report is
\* not zero.  The values compared are the fractions bytes_read / total.
C10_ReportsMonotone ==
    [][(ReportStep /\ lastRep.kind # "none") =>
          /\ Steady(lastRep) => RepLeq(lastRep, lastRep')
          /\ NonZero(lastRep) => NonZero(lastRep')]_vars

\* Two files' totals are known, a non-zero percentage below 100 was
\* reported, and a new bytes-read value waits to be received by the poll
\* that writes the next report.
C10_Witness ==
    /\ NFiles = 2 /\ \A f \in F : totalFrom[f] > 0
    /\ lastRep.kind = "pct" /\ NonZero(lastRep) /\ Steady(lastRep)
    /\ aPc = "prog" /\ \E f \in F : progCh[f].pending = 1

\* The lines of standard output that come from file f, in output order.
PerFile(f) == SelectSeq(stdout, LAMBDA e : e[1] = f)

\* What processing file f alone prints: its lines with a match, in the
\* file's order.
Alone(f) ==
    SelectSeq([k \in 1..Len(files[f].lines) |-> <<f, k>>],
              LAMBDA e : files[f].lines[e[2]] = "M")

IsPrefix(s, t) == Len(s) <= Len(t) /\ s = SubSeq(t, 1, Len(s))

\* C11: the lines on standard output that come from one file are, in every
\* state, a prefix of what processing that file alone prints, and all of it
\* once the process has ended with status 0 (valid pattern, validly
\* compressed regular file).  (As claimed; the code prints nothing for a
\* file whose task panics on its announcement.)
C11_PerFileOutputAsAlone ==
    \A f \in F :
        /\ IsPrefix(PerFile(f), Alone(f))
        /\ (exitCode = 0 /\ regexValid /\ files[f].target = "file"
               /\ files[f].fault = "none") => PerFile(f) = Alone(f)

\* A step that is one call of Progress::read on its own.
ReadCall == rPc = "call" /\ rPc' = "returned"

\* C12: Progress::read returns the inner reader's result as it is.  After
\* an error the counter and the channel are as before the call.  After
\* Ok(n) the counter has grown by n, also when no receiver is alive, and
\* then the channel is as before.  The call is never held up by the state
\* of the channel: it can always take its step.
C12_ReadReturnsInnerResult ==
    /\ [](rPc = "call" => ENABLED R_Read)
    /\ [][ReadCall =>
            /\ rRet' = rResult
            /\ ~rResult.ok => (rBytesRead' = rBytesRead /\ rCh' = rCh)
            /\ rResult.ok => rBytesRead' = rBytesRead + rResult.n
            /\ (rResult.ok /\ ~rAlive) => rCh' = rCh
            /\ (rResult.ok /\ rAlive) => rCh'.val = rBytesRead']_vars

\* A read of some bytes has returned with no receiver alive for its
\* publish.
C12_Witness ==
    rPc = "returned" /\ rResult.ok /\ rResult.n > 0 /\ ~rAlive /\ rRet = rResult

\* A step in which file f's Progress::read returns Ok: the file handle
\* moved on, or reported the end of the file.
SuccessfulRead(f) == offset'[f] # offset[f] \/ (~eof[f] /\ eof'[f])

\* C13: the value Progress publishes after a successful read of file f (its
\* counter) is the sum of the byte counts the reads of f have returned so
\* far, is not below the value published before, and is not above the
\* file's announced size; with the receiver alive it is the value the
\* channel then holds.
C13_PublishedCumulative ==
    [][\A f \in F : SuccessfulRead(f) =>
            /\ pos'[f] = offset'[f]
            /\ pos'[f] >= pos[f]
            /\ pos'[f] <= files[f].len
            /\ RxAlive => (progCh'[f].pending > 0 /\ progCh'[f].val = pos'[f])]_vars

\* A file was read in two reads of some bytes each and the second count,
\* the sum of both, waits in the channel.
C13_Witness ==
    \E f \in F : /\ progCh[f].pending > 0 /\ progCh[f].val = files[f].len
                 /\ bytesFrom[f] > 0 /\ bytesFrom[f] < files[f].len
                 /\ offset[f] = files[f].len

\* C14: the total of a file is published at most once; exactly once for a
\* file whose task has gone on to the search or has read through Progress;
\* never for an empty file; and once before any bytes-read update of the
\* file is published.
C14_TotalAnnouncedOnceFirst ==
    \A f \in F :
        /\ totSent[f] <= 1
        /\ (tPc[f] = "search" \/ readIssued[f]) => totSent[f] = 1
        /\ files[f].len = 0 => totSent[f] = 0
        /\ (progSent[f] \/ progCh[f] # EmptyCh \/ bytesFrom[f] > 0) => totSent[f] = 1

\* A file's total was published and the file was searched to its end, with
\* bytes-read updates published, beside an empty file whose task is done.
C14_Witness ==
    /\ \E f \in F : totSent[f] = 1 /\ progSent[f] /\ eof[f] /\ outcome[f] = "Ok"
    /\ \E f \in F : files[f].len = 0 /\ outcome[f] = "Ok"

\* C15: a task that ends with InvalidInputError has published no total, and
\* the progress task's running total has nothing from its file.  (As
\* claimed; the code sends the total before it looks at the file type.)
C15_RejectedNeverAnnounces ==
    \A f \in F : outcome[f] = "InvalidInputError" =>
        totSent[f] = 0 /\ totCh[f] = EmptyCh /\ totalFrom[f] = 0

\* C19: whenever a task is about to publish its total the receiver is
\* alive, and no task ends by a panic.  (As claimed; the receivers are
\* dropped when the progress task ends after its 100% report, whatever the
\* other tasks have reached.)
C19_ReceiverAliveAtAnnounce ==
    \A f \in F : /\ tPc[f] = "announce" => SendOk
                 /\ outcome[f] # "Panic"

\* The sum of g over the files 1..n.
RECURSIVE SumOver(_, _)
SumOver(g, n) == IF n = 0 THEN 0 ELSE g[n] + SumOver(g, n - 1)

\* C20: the progress task's bytes-read sum is at most the sum of the files'
\* latest counts, its total is at most the sum of the announced sizes, and
\* no file's total is added more than once.  (As claimed; the code adds
\* every received count, which is cumulative, to the sum.)
C20_NoDoubleCounting ==
    /\ bytes_read <= SumOver(pos, NFiles)
    /\ total <= SumOver([f \in F |-> files[f].len * totSent[f]], NFiles)
    /\ \A f \in F : totalFrom[f] <= files[f].len

\* C16: every iteration of the progress task's loop that does not leave the
\* loop goes to the sleep before the next poll.  (As claimed; with the
\* running total still zero the code starts the next iteration at once.)
C16_EveryIterationSleeps ==
    [][(aPc = "prog" /\ aPc' # "prog") => aPc' \in {"sleep", "done"}]_vars

\* C18: no line on which the matcher reports an error or finds no span is
\* printed; no task fails with an error of the search's callback; and a
\* task that completed the search of a non-empty file has handed every one
\* of its lines to the callback and printed each line with a match, those
\* after a line with a match error included.
C18_MatchErrorSkipsLine ==
    /\ \A i \in 1..Len(stdout) : files[stdout[i][1]].lines[stdout[i][2]] = "M"
    /\ \A f \in F :
        /\ outcome[f] # "SearchError"
        /\ (outcome[f] = "Ok" /\ files[f].len > 0) =>
              /\ nextLine[f] = Len(files[f].lines) + 1
              /\ PerFile(f) = Alone(f)

\* A task completed its search of a file whose first line gives a match
\* error and whose second line has a match, which was printed.
C18_Witness ==
    \E f \in F : /\ files[f].lines = <<"E", "M">>
                 /\ outcome[f] = "Ok"
                 /\ PerFile(f) = <<<<f, 2>>>>

\* Some file announces its total, and every non-empty file is read until a
\* read reports its end.
AnnouncedAndAllRead ==
    /\ <>(\E f \in F : totSent[f] > 0)
    /\ <>[](\A f \in F : files[f].len > 0 => eof[f])

\* The progress task has reported 100% and left its loop.
ReportedFull == aPc = "done" /\ lastRep.kind = "full"

\* The 100% report is written by the step that ends the progress task and
\* by no other, no report follows it, and every other report shows less
\* than the total.
FullReportIsLast ==
    /\ [](lastRep.kind = "full" <=> aPc = "done")
    /\ [](lastRep.kind = "pct" => lastRep.b < lastRep.t)
    /\ [][lastRep.kind = "full" => lastRep' = lastRep]_vars

====
